---- MODULE Spec2Model ----
(***************************************************************************)
(* RemoteClient of firepy/app/client.py: a client object with three        *)
(* fields (host, port, url) and fourteen methods, each of which talks to   *)
(* a remote server through blocking HTTP requests.  The server, the        *)
(* console and the decoding libraries are the environment: every response  *)
(* body and every console answer is chosen nondeterministically.           *)
(*                                                                         *)
(* Text is modelled as a sequence of tokens, so that str.startswith and    *)
(* string concatenation are computed, not assumed.                         *)
(***************************************************************************)
EXTENDS Integers, Sequences, FiniteSets, TLC

VARIABLES ctor, host, port, url, pc, method, args, success, log, response, answer, result

vars == <<ctor, host, port, url, pc, method, args, success, log, response, answer, result>>

client == <<ctor, host, port, url>>

(***************************************************************************)
(* Bounds and input domains                                                *)
(***************************************************************************)
MaxPort == 1

Hosts == {"localhost"}
Ports == 1..MaxPort
Names == {"setupA"}

None == "<None>"

\* Arguments that are either absent (None) or present.
Opt(v) == {None, v}

(***************************************************************************)
(* Text helpers                                                            *)
(***************************************************************************)
OK == <<"O", "K">>

\* str.startswith
StartsWith(text, prefix) ==
    /\ Len(text) >= Len(prefix)
    /\ SubSeq(text, 1, Len(prefix)) = prefix

\* '{host}:{port}'.format(host=..., port=...)
FormatUrl(h, p) == <<h, ":", p>>

\* The bodies the server may answer with: the decoded text and what the
\* bytes are to the JSON and pickle decoders.
\*   plain          text that is neither JSON nor a pickle
\*   empty          an empty body
\*   json_split     JSON holding a table in 'split' orientation
\*   json_other     JSON holding anything else
\*   pickle_mapping a pickled mapping
\*   pickle_object  a pickled object that is not a mapping
Bodies ==
    { [text |-> <<"O", "K">>,           kind |-> "plain"],
      [text |-> <<"O", "K", "!">>,      kind |-> "plain"],
      [text |-> <<"O">>,                kind |-> "plain"],
      [text |-> <<"E", "R", "R">>,      kind |-> "plain"],
      [text |-> <<>>,                   kind |-> "empty"],
      [text |-> <<"{", "split", "}">>,  kind |-> "json_split"],
      [text |-> <<"{", "other", "}">>,  kind |-> "json_other"],
      [text |-> <<"pkl", "dict">>,      kind |-> "pickle_mapping"],
      [text |-> <<"pkl", "obj">>,       kind |-> "pickle_object"] }

NoResponse == [text |-> <<>>, kind |-> "none"]

(***************************************************************************)
(* Return values                                                           *)
(***************************************************************************)
NoResult      == [kind |-> "pending", val |-> <<>>]
ReturnNone    == [kind |-> "None",    val |-> <<>>]
ReturnText(t) == [kind |-> "text",    val |-> t]
ReturnValue(k, v) == [kind |-> k, val |-> v]
Raise(exc)    == [kind |-> "raise",   val |-> exc]

\* '\n' + pformat(success)
SuccessMessage(d) == [kind |-> "newline+pformat", val |-> d]

EnergyTypeMessage ==
    <<"Energy calculation type can be one of the following: simulation / steady_state">>

(***************************************************************************)
(* The log of a call: what it reads from the console, the requests it      *)
(* sends and the responses it receives, in order.                          *)
(***************************************************************************)
Request(verb, u, params, data) ==
    [ev |-> "request", verb |-> verb, url |-> u, params |-> params, data |-> data]

Received(r) == [ev |-> "response", text |-> r.text, kind |-> r.kind]

Prompt(text) == [ev |-> "input", prompt |-> text]

(***************************************************************************)
(* Construction: RemoteClient(host, port)                                  *)
(***************************************************************************)
Init ==
    /\ ctor \in [host : Hosts, port : Ports]
    /\ host = ctor.host
    /\ port = ctor.port
    /\ url = FormatUrl(host, port)
    /\ pc = "idle"
    /\ method = "none"
    /\ args = <<>>
    /\ success = <<>>
    /\ log = <<>>
    /\ response = NoResponse
    /\ answer = None
    /\ result = NoResult

\* A method can be called when no call is in progress.
CanCall == pc = "idle"

\* Variant: a method stores the endpoint it builds in self.url.
FrameUrlOverwritten ==
    /\ UNCHANGED <<ctor, host, port>>
    /\ url' = url \o <<"/setup">>

\* No method assigns to self: the fields set by the constructor stay.
Frame == UNCHANGED client

(***************************************************************************)
(* setup(name, epw, weather_data, idf, model, parameters, lca_calculation, *)
(*       cost_calculation, energy_calculation, init_db)                    *)
(***************************************************************************)
EnergyArgs == {None, "", "simulation", "steady_state", "dynamic"}

SetupArgs ==
    [ name               : Names,
      epw                : Opt("epw_path"),
      weather_data       : Opt("csv_path"),
      idf                : Opt("idf_object"),
      model              : Opt("building"),
      parameters         : Opt("parameter_dict"),
      lca_calculation    : Opt("lca_object"),
      cost_calculation   : Opt("cost_object"),
      energy_calculation : EnergyArgs,
      init_db            : BOOLEAN ]

\* The blocks of setup in the order of the source text.
Steps ==
    << "epw", "weather_data", "idf", "model", "parameters", "lca_calculation",
       "cost_calculation", "database", "energy_calculation" >>

StepSet == {Steps[i] : i \in 1..Len(Steps)}

StepIndex(step) == CHOOSE i \in 1..Len(Steps) : Steps[i] = step

\* Variant: the database block placed after the energy calculation block.
AfterDatabaseLast(step) ==
    CASE step = "cost_calculation"   -> "energy_calculation"
      [] step = "energy_calculation" -> "database"
      [] step = "database"           -> "return"
      [] OTHER                       -> Steps[StepIndex(step) + 1]

\* Where control goes when a block is left without returning.
After(step) ==
    IF StepIndex(step) < Len(Steps) THEN Steps[StepIndex(step) + 1] ELSE "return"

\* Python truthiness of the energy_calculation argument.
Truthy(v) == v # None /\ v # ""

\* Variant: the database block ignores init_db.
StepWantedDatabaseAlways(a, step) ==
    CASE step = "database"           -> TRUE
      [] step = "energy_calculation" -> Truthy(a.energy_calculation)
      [] OTHER                       -> a[step] # None

\* The condition guarding each block.
StepWanted(a, step) ==
    CASE step = "database"           -> a.init_db
      [] step = "energy_calculation" -> Truthy(a.energy_calculation)
      [] OTHER                       -> a[step] # None

\* Variant: the energy calculation type is not validated.
EnergyTypeUnchecked(e) == TRUE

EnergyTypeAllowed(e) == e \in {"simulation", "steady_state"}

\* Variant: the check reads only the first letter of the response.
FailedFirstLetter(r) == ~StartsWith(r.text, <<"O">>)

\* not response.text.startswith('OK')
Failed(r) == ~StartsWith(r.text, OK)

\* The key under which a block records its response in success.
SuccessKey(step) ==
    CASE step = "epw"                -> "epw"
      [] step = "weather_data"       -> "weather"
      [] step = "idf"                -> "idf"
      [] step = "model"              -> "model"
      [] step = "parameters"         -> "parameters"
      [] step = "lca_calculation"    -> "LCA Calculation"
      [] step = "cost_calculation"   -> "Cost Calculation"
      [] step = "database"           -> "Database"
      [] step = "energy_calculation" -> "Energy Calculation"

\* The body each block posts.
StepData(a, step) ==
    CASE step = "epw"                -> <<"unix_newlines", "read", a.epw>>
      [] step = "weather_data"       -> <<"dill.dumps", "read_csv", a.weather_data>>
      [] step = "idf"                -> <<"idfstr", a.idf>>
      [] step = "model"              -> <<"dill.dumps", a.model>>
      [] step = "parameters"         -> <<"dill.dumps", a.parameters>>
      [] step = "lca_calculation"    -> <<"dill.dumps", a.lca_calculation>>
      [] step = "cost_calculation"   -> <<"dill.dumps", a.cost_calculation>>
      [] OTHER                       -> <<>>

StepParams(a, step) ==
    IF step = "energy_calculation"
    THEN [name |-> a.name, type |-> step, mode |-> a.energy_calculation]
    ELSE [name |-> a.name, type |-> step]

SetupRequest(u, a, step) ==
    Request("POST", u \o <<"/setup">>, StepParams(a, step), StepData(a, step))

\* d[key] = value on a dict
Put(d, key, value) ==
    [k \in (DOMAIN d) \cup {key} |-> IF k = key THEN value ELSE d[k]]

SetupBegin ==
    /\ CanCall
    /\ \E a \in SetupArgs : args' = a
    /\ method' = "setup"
    /\ success' = <<>>
    /\ log' = <<>>
    /\ response' = NoResponse
    /\ answer' = None
    /\ result' = NoResult
    /\ pc' = Steps[1]
    /\ Frame

\* One block of setup: skipped, or posted and answered.
SetupStep(step) ==
    /\ method = "setup"
    /\ pc = step
    /\ answer' = answer
    /\ UNCHANGED <<method, args>>
    /\ Frame
    /\ IF ~StepWanted(args, step)
       THEN /\ pc' = After(step)
            /\ UNCHANGED <<success, log, response, result>>
       ELSE IF step = "energy_calculation" /\ ~EnergyTypeAllowed(args.energy_calculation)
       THEN /\ result' = ReturnText(EnergyTypeMessage)
            /\ pc' = "done"
            /\ UNCHANGED <<success, log, response>>
       ELSE \E r \in Bodies :
            /\ log' = log \o <<SetupRequest(url, args, step), Received(r)>>
            /\ response' = r
            /\ IF Failed(r)
               THEN /\ result' = ReturnText(r.text)
                    /\ pc' = "done"
                    /\ UNCHANGED success
               ELSE /\ success' = Put(success, SuccessKey(step), r.text)
                    /\ pc' = After(step)
                    /\ UNCHANGED result

SetupEpw               == SetupStep("epw")
SetupWeatherData       == SetupStep("weather_data")
SetupIdf               == SetupStep("idf")
SetupModel             == SetupStep("model")
SetupParameters        == SetupStep("parameters")
SetupLcaCalculation    == SetupStep("lca_calculation")
SetupCostCalculation   == SetupStep("cost_calculation")
SetupDatabase          == SetupStep("database")
SetupEnergyCalculation == SetupStep("energy_calculation")

SetupReturn ==
    /\ method = "setup"
    /\ pc = "return"
    /\ result' = SuccessMessage(success)
    /\ pc' = "done"
    /\ UNCHANGED <<method, args, success, log, response, answer>>
    /\ Frame

Setup ==
    \/ SetupBegin
    \/ SetupEpw
    \/ SetupWeatherData
    \/ SetupIdf
    \/ SetupModel
    \/ SetupParameters
    \/ SetupLcaCalculation
    \/ SetupCostCalculation
    \/ SetupDatabase
    \/ SetupEnergyCalculation
    \/ SetupReturn

(***************************************************************************)
(* Decoding a response, and the exceptions the decoders raise              *)
(***************************************************************************)
\* requests takes its JSON decoder from simplejson when that is installed
\* and from the standard json module otherwise.
JsonLibs == {"json", "simplejson"}

\* The classes an exception is an instance of.
Bases(exc) ==
    CASE exc = "JSONDecodeError(json)"       -> {"json.JSONDecodeError", "ValueError"}
      [] exc = "JSONDecodeError(simplejson)" -> {"simplejson.JSONDecodeError", "ValueError"}
      [] exc = "ValueError"                  -> {"ValueError"}
      [] exc = "UnpicklingError"             -> {"pickle.UnpicklingError"}
      [] exc = "EOFError"                    -> {"EOFError"}
      [] exc = "AttributeError"              -> {"AttributeError"}

\* The classes named in the except clauses.
ExceptValueError      == "ValueError"
ExceptJSONDecodeError == "json.JSONDecodeError"
ExceptUnpicklingError == "pickle.UnpicklingError"

Returned(v) == [raised |-> FALSE, val |-> v]
Raised(exc) == [raised |-> TRUE,  val |-> exc]

IsJson(r) == r.kind \in {"json_split", "json_other"}

\* response.json()
ResponseJson(r, lib) ==
    IF IsJson(r)
    THEN Returned([py |-> "json", kind |-> r.kind, text |-> r.text])
    ELSE Raised(IF lib = "json" THEN "JSONDecodeError(json)"
                                ELSE "JSONDecodeError(simplejson)")

\* pd.read_json(obj, orient='split')
ReadJsonSplit(obj) ==
    IF obj.kind = "json_split"
    THEN Returned([py |-> "DataFrame", kind |-> obj.kind, text |-> obj.text])
    ELSE Raised("ValueError")

\* pd.read_json(response.json(), orient='split')
ResponseTable(r, lib) ==
    LET j == ResponseJson(r, lib)
    IN  IF j.raised THEN j ELSE ReadJsonSplit(j.val)

\* dill.loads(response.content)
DillLoads(r) ==
    CASE r.kind = "pickle_mapping" -> Returned([py |-> "mapping", kind |-> r.kind, text |-> r.text])
      [] r.kind = "pickle_object"  -> Returned([py |-> "object",  kind |-> r.kind, text |-> r.text])
      [] r.kind = "empty"          -> Raised("EOFError")
      [] OTHER                     -> Raised("UnpicklingError")

\* [p for p in param_dict.values()]
ValuesList(obj) ==
    IF obj.py = "mapping"
    THEN Returned([py |-> "list", kind |-> obj.kind, text |-> obj.text])
    ELSE Raised("AttributeError")

\* dill.loads(response.content) followed by .values()
ResponseParams(r) ==
    LET d == DillLoads(r)
    IN  IF d.raised THEN d ELSE ValuesList(d.val)

\* try: return <decoded> / except <handler>: return response.text
TryDecode(outcome, handler, r) ==
    IF ~outcome.raised THEN ReturnValue("value", outcome.val)
    ELSE IF handler \in Bases(outcome.val) THEN ReturnText(r.text)
    ELSE Raise(outcome.val)

(***************************************************************************)
(* The methods that send one request and decode its response               *)
(***************************************************************************)
Get(u, path, params)        == Request("GET",  u \o <<path>>, params, <<>>)
Post(u, path, params, data) == Request("POST", u \o <<path>>, params, data)

\* payload.update(parameters)
Update(d, e) ==
    [k \in (DOMAIN d) \cup (DOMAIN e) |-> IF k \in DOMAIN e THEN e[k] ELSE d[k]]

ParamMaps == { <<>>, [wall |-> "0.3"] }

\* A whole call: the requests sent, the response to the last of them and
\* what the call returns or raises.
Call(m, a, reqs, r, res) ==
    /\ method' = m
    /\ args' = a
    /\ success' = <<>>
    /\ log' = reqs \o <<Received(r)>>
    /\ response' = r
    /\ answer' = None
    /\ result' = res
    /\ pc' = "done"
    /\ Frame

Calculate ==
    /\ CanCall
    /\ \E a \in [name : Names, parameters : ParamMaps], r \in Bodies, lib \in JsonLibs :
           Call("calculate", a,
                <<Get(url, "/calculate", Update([name |-> a.name], a.parameters))>>,
                r, TryDecode(ResponseJson(r, lib), ExceptValueError, r))

Status ==
    /\ CanCall
    /\ \E r \in Bodies, lib \in JsonLibs :
           Call("status", <<>>,
                <<Get(url, "/status", <<>>)>>,
                r, TryDecode(ResponseJson(r, lib), ExceptValueError, r))

Results ==
    /\ CanCall
    /\ \E a \in [name : Names], r \in Bodies, lib \in JsonLibs :
           Call("results", a,
                <<Get(url, "/results", [name |-> a.name])>>,
                r, TryDecode(ResponseTable(r, lib), ExceptJSONDecodeError, r))

Reinstate ==
    /\ CanCall
    /\ \E a \in [name : Names, calc_id : {"c1"}], r \in Bodies, lib \in JsonLibs :
           Call("reinstate", a,
                <<Get(url, "/reinstate", [name |-> a.name, id |-> a.calc_id])>>,
                r, TryDecode(ResponseJson(r, lib), ExceptJSONDecodeError, r))

\* Variant: the else of instate is lost, so the GET follows the POST.
InstateRequestsNoElse(u, payload, options) ==
    IF options # None
    THEN << Post(u, "/instate", payload, <<"json.dumps", options>>),
            Get(u, "/instate", payload) >>
    ELSE <<Get(u, "/instate", payload)>>

\* The request of instate: a POST carrying the options, or a GET.
InstateRequests(u, payload, options) ==
    IF options # None
    THEN <<Post(u, "/instate", payload, <<"json.dumps", options>>)>>
    ELSE <<Get(u, "/instate", payload)>>

Instate ==
    /\ CanCall
    /\ \E a \in [name : Names, parameters : ParamMaps, options : Opt("options_dict")],
          r \in Bodies, lib \in JsonLibs :
           Call("instate", a,
                InstateRequests(url, Update([name |-> a.name], a.parameters), a.options),
                r, TryDecode(ResponseJson(r, lib), ExceptJSONDecodeError, r))

GetModel ==
    /\ CanCall
    /\ \E a \in [name : Names], r \in Bodies :
           Call("get_model", a,
                <<Get(url, "/model", [name |-> a.name])>>,
                r, TryDecode(DillLoads(r), ExceptUnpicklingError, r))

GetParams ==
    /\ CanCall
    /\ \E a \in [name : Names], r \in Bodies, lib \in JsonLibs :
           Call("get_params", a,
                <<Get(url, "/parameters", [name |-> a.name])>>,
                r, TryDecode(ResponseJson(r, lib), ExceptJSONDecodeError, r))

GetFullParams ==
    /\ CanCall
    /\ \E a \in [name : Names], r \in Bodies :
           Call("get_full_params", a,
                <<Get(url, "/parameters/full", [name |-> a.name])>>,
                r, TryDecode(ResponseParams(r), ExceptUnpicklingError, r))

GetLca ==
    /\ CanCall
    /\ \E a \in [name : Names], r \in Bodies :
           Call("get_lca", a,
                <<Get(url, "/lca", [name |-> a.name])>>,
                r, TryDecode(DillLoads(r), ExceptUnpicklingError, r))

GetCost ==
    /\ CanCall
    /\ \E a \in [name : Names], r \in Bodies :
           Call("get_cost", a,
                <<Get(url, "/cost", [name |-> a.name])>>,
                r, TryDecode(DillLoads(r), ExceptUnpicklingError, r))

DefaultVariables == <<"heating", "cooling", "lights">>

GetEnergy ==
    /\ CanCall
    /\ \E a \in [name : Names, calc_id : Opt("c1"), variables : {None, <<"people">>},
                 typ : {"zone", "surface"}, period : {"runperiod", "monthly"}],
          r \in Bodies, lib \in JsonLibs :
           Call("get_energy", a,
                <<Get(url, "/energy",
                      [name |-> a.name, id |-> a.calc_id,
                       variables |-> IF a.variables = None THEN DefaultVariables
                                                           ELSE a.variables,
                       type |-> a.typ, period |-> a.period])>>,
                r, TryDecode(ResponseTable(r, lib), ExceptJSONDecodeError, r))

GetEnergyDetailed ==
    /\ CanCall
    /\ \E a \in [name : Names, calc_id : {"c1"}, variable : {"heating"},
                 typ : {"zone"}, period : {"runperiod", "monthly"}],
          r \in Bodies, lib \in JsonLibs :
           Call("get_energy_detailed", a,
                <<Get(url, "/energy/detailed",
                      [name |-> a.name, id |-> a.calc_id, variable |-> a.variable,
                       type |-> a.typ, period |-> a.period])>>,
                r, TryDecode(ResponseTable(r, lib), ExceptJSONDecodeError, r))

(***************************************************************************)
(* cleanup(name, target)                                                   *)
(***************************************************************************)
Answers == {"y", "n", "Y", "yes", ""}

\* Variant: the answer is compared without regard to case.
ConfirmedAnyCase(ans) == ans \in {"y", "Y"}

\* input('Are you sure? (y/n): ') == 'y'
Confirmed(ans) == ans = "y"

\* Up to the prompt: the warnings are logged and the question is asked.
CleanupBegin ==
    /\ CanCall
    /\ \E a \in [name : Names, target : {None, "results", "simulations"}] : args' = a
    /\ method' = "cleanup"
    /\ success' = <<>>
    /\ log' = <<Prompt("Are you sure? (y/n): ")>>
    /\ response' = NoResponse
    /\ answer' = None
    /\ result' = NoResult
    /\ pc' = "confirm"
    /\ Frame

\* The answer is read; the request is sent or the call is cancelled.
CleanupConfirm ==
    /\ method = "cleanup"
    /\ pc = "confirm"
    /\ \E ans \in Answers :
        /\ answer' = ans
        /\ IF Confirmed(ans)
           THEN \E r \in Bodies :
                /\ log' = log \o <<Get(url, "/cleanup",
                                       [name |-> args.name, target |-> args.target]),
                                   Received(r)>>
                /\ response' = r
                /\ result' = ReturnText(r.text)
           ELSE /\ result' = ReturnNone
                /\ UNCHANGED <<log, response>>
    /\ pc' = "done"
    /\ UNCHANGED <<method, args, success>>
    /\ Frame

Cleanup ==
    \/ CleanupBegin
    \/ CleanupConfirm

\* The call has returned (or raised); the caller goes on to its next call.
NextCall ==
    /\ pc = "done"
    /\ pc' = "idle"
    /\ method' = "none"
    /\ args' = <<>>
    /\ success' = <<>>
    /\ log' = <<>>
    /\ response' = NoResponse
    /\ answer' = None
    /\ result' = NoResult
    /\ Frame

Next ==
    \/ Setup
    \/ Calculate
    \/ Status
    \/ Results
    \/ Cleanup
    \/ Reinstate
    \/ Instate
    \/ GetModel
    \/ GetParams
    \/ GetFullParams
    \/ GetLca
    \/ GetCost
    \/ GetEnergy
    \/ GetEnergyDetailed
    \/ NextCall

Spec == Init /\ [][Next]_vars

(***************************************************************************)
(* Properties                                                              *)
(***************************************************************************)
Done == pc = "done"

RequestIndexes == {i \in 1..Len(log) : log[i].ev = "request"}

ResponseIndexes == {i \in 1..Len(log) : log[i].ev = "response"}

NumRequests == Cardinality(RequestIndexes)

\* The text begins with the two letters O, K.
BeginsOK(t) == Len(t) >= 2 /\ t[1] = "O" /\ t[2] = "K"

AllResponsesOK == \A i \in ResponseIndexes : BeginsOK(log[i].text)

\* The requests of a setup call that carry the given type.
OfType(t) == {i \in RequestIndexes : log[i].params.type = t}

RequestTypes == {log[i].params.type : i \in RequestIndexes}

InvalidEnergy(e) == e \notin {None, "", "simulation", "steady_state"}

\* C1 as stated: every call of every public method sends exactly one HTTP
\* request, never zero and never more than one.
C1_ExactlyOneRequestPerCall == Done => NumRequests = 1

\* C1 amended: every public method other than setup and cleanup sends
\* exactly one request per call; cleanup sends one when the answer is 'y'
\* and none otherwise; setup sends between zero and nine.
C1_RequestsPerCall ==
    Done =>
        CASE method = "setup"   -> NumRequests \in 0..9
          [] method = "cleanup" -> NumRequests = (IF answer = "y" THEN 1 ELSE 0)
          [] OTHER              -> NumRequests = 1

C1_Witness ==
    /\ Done
    /\ method = "instate"
    /\ args.options # None
    /\ NumRequests = 1
    /\ log[1].verb = "POST"

JsonMethods == {"calculate", "status", "reinstate", "instate", "get_params"}

TableMethods == {"results", "get_energy", "get_energy_detailed"}

PickleMethods == {"get_model", "get_full_params", "get_lca", "get_cost"}

\* The decode failures of the claim: the body is not JSON; it is JSON but no
\* table in 'split' orientation; it is no pickled object; the unpickled
\* value is no mapping.
DecodeFailure ==
    \/ method \in JsonMethods /\ response.kind \notin {"json_split", "json_other"}
    \/ method \in TableMethods /\ response.kind # "json_split"
    \/ method \in PickleMethods /\ response.kind \notin {"pickle_mapping", "pickle_object"}
    \/ method = "get_full_params" /\ response.kind # "pickle_mapping"

\* C2: when a decoding method meets a decode failure of any kind, the call
\* returns the response text unchanged and raises nothing.
C2_DecodeFailureReturnsText ==
    (Done /\ DecodeFailure) => (result.kind = "text" /\ result.val = response.text)

EndpointOf(m) ==
    CASE m = "setup"               -> "/setup"
      [] m = "calculate"           -> "/calculate"
      [] m = "status"              -> "/status"
      [] m = "results"             -> "/results"
      [] m = "cleanup"             -> "/cleanup"
      [] m = "reinstate"           -> "/reinstate"
      [] m = "instate"             -> "/instate"
      [] m = "get_model"           -> "/model"
      [] m = "get_params"          -> "/parameters"
      [] m = "get_full_params"     -> "/parameters/full"
      [] m = "get_lca"             -> "/lca"
      [] m = "get_cost"            -> "/cost"
      [] m = "get_energy"          -> "/energy"
      [] m = "get_energy_detailed" -> "/energy/detailed"

\* C3: whatever calls were made, host, port and url are the values the
\* constructor fixed, and every request of the call in progress goes to the
\* constructor's url followed by the method's endpoint, under the name the
\* call was given.
C3_ClientStateFixed ==
    /\ host = ctor.host
    /\ port = ctor.port
    /\ url = FormatUrl(ctor.host, ctor.port)
    /\ \A i \in RequestIndexes :
        /\ log[i].url = FormatUrl(ctor.host, ctor.port) \o <<EndpointOf(method)>>
        /\ "name" \in DOMAIN log[i].params => log[i].params.name = args.name

C3_Witness ==
    /\ Done
    /\ method = "calculate"
    /\ DOMAIN args.parameters # {}
    /\ NumRequests = 1
    /\ log[1].url = <<ctor.host, ":", ctor.port, "/calculate">>

\* C4: a request to /cleanup is sent if and only if the answer read from
\* the prompt is exactly 'y'; for any other answer no request is sent; the
\* prompt precedes the request.
C4_CleanupConfirmed ==
    method = "cleanup" =>
        /\ \A i \in RequestIndexes :
            /\ answer = "y"
            /\ \E j \in 1..(i - 1) : log[j].ev = "input"
        /\ pc = "confirm" => NumRequests = 0
        /\ Done => (NumRequests = 1 <=> answer = "y")
        /\ (Done /\ answer # "y") => (NumRequests = 0 /\ result.kind = "None")

C4_Witness ==
    /\ Done
    /\ method = "cleanup"
    /\ answer = "y"
    /\ Len(log) = 3
    /\ log[1].ev = "input"
    /\ log[2].ev = "request"
    /\ log[2].url[4] = "/cleanup"

\* The options of a setup call that the claim counts as supplied.
SuppliedSteps ==
    {s \in {"epw", "weather_data", "idf", "model", "parameters",
            "lca_calculation", "cost_calculation"} : args[s] # None}
    \cup (IF args.init_db THEN {"database"} ELSE {})
    \cup (IF args.energy_calculation \in {"simulation", "steady_state"}
          THEN {"energy_calculation"} ELSE {})

\* One request for each supplied option, none for any other.
OneRequestPerSuppliedStep ==
    \A s \in StepSet : Cardinality(OfType(s)) = (IF s \in SuppliedSteps THEN 1 ELSE 0)

\* The text of the response to the request of the given type.
ResponseTo(s) == log[(CHOOSE i \in OfType(s) : TRUE) + 1].text

\* The call returned a success message with one entry for each step
\* performed, holding the response text of that step.
ReturnsSuccessOfSteps ==
    /\ result.kind = "newline+pformat"
    /\ DOMAIN result.val = {SuccessKey(s) : s \in RequestTypes}
    /\ Cardinality(DOMAIN result.val) = Cardinality(RequestTypes)
    /\ \A s \in RequestTypes : result.val[SuccessKey(s)] = ResponseTo(s)

\* C5 as stated: when every response starts with 'OK', setup sends one
\* request for each supplied option, none for the others, and returns a
\* success message whose entries are the steps performed.
C5_SetupAllOK ==
    (Done /\ method = "setup" /\ AllResponsesOK) =>
        (OneRequestPerSuppliedStep /\ ReturnsSuccessOfSteps)

\* C5 amended: when every response starts with 'OK', setup sends one
\* request for each supplied option and none for the others; and unless
\* energy_calculation is a non-empty value other than the two allowed ones,
\* it returns a success message whose entries are the steps performed.
C5_SetupAllOKValidEnergy ==
    (Done /\ method = "setup" /\ AllResponsesOK) =>
        /\ OneRequestPerSuppliedStep
        /\ ~InvalidEnergy(args.energy_calculation) => ReturnsSuccessOfSteps

C5_Witness ==
    /\ Done
    /\ method = "setup"
    /\ AllResponsesOK
    /\ args.epw # None
    /\ args.idf = None
    /\ ~args.init_db
    /\ args.energy_calculation = "steady_state"
    /\ result.kind = "newline+pformat"
    /\ RequestTypes = SuppliedSteps
    /\ \E k, l \in DOMAIN result.val : result.val[k] # result.val[l]

EnergyRequestsAllowed ==
    \A i \in OfType("energy_calculation") :
        log[i].params.mode \in {"simulation", "steady_state"}

\* C6 as stated: for any non-empty energy_calculation other than the two
\* allowed values setup returns the fixed message and sends no request of
\* type energy_calculation; such a request only carries an allowed mode.
C6_InvalidEnergyReturnsMessage ==
    method = "setup" =>
        /\ EnergyRequestsAllowed
        /\ InvalidEnergy(args.energy_calculation) => OfType("energy_calculation") = {}
        /\ (Done /\ InvalidEnergy(args.energy_calculation)) =>
                (result.kind = "text" /\ result.val = EnergyTypeMessage)

\* C6 amended: for such a value setup never sends a request of type
\* energy_calculation, and it returns the fixed message when the response
\* to every earlier step started with 'OK' (otherwise the text of the
\* response that did not); a request of type energy_calculation only
\* carries an allowed mode.
C6_InvalidEnergyAfterEarlierSteps ==
    method = "setup" =>
        /\ EnergyRequestsAllowed
        /\ InvalidEnergy(args.energy_calculation) => OfType("energy_calculation") = {}
        /\ (Done /\ InvalidEnergy(args.energy_calculation)) =>
                IF AllResponsesOK
                THEN result.kind = "text" /\ result.val = EnergyTypeMessage
                ELSE result.kind = "text" /\ result.val = log[Len(log)].text

C6_Witness ==
    /\ Done
    /\ method = "setup"
    /\ args.energy_calculation = "dynamic"
    /\ NumRequests >= 2
    /\ result.kind = "text"
    /\ result.val = EnergyTypeMessage

\* C7: setup stops at the first response that does not start with 'OK': it
\* returns that text, sends nothing after it, sends no request twice, and
\* sends nothing but the POSTs of its own steps.
C7_StopsAtFirstFailure ==
    method = "setup" =>
        /\ \A i \in ResponseIndexes :
            ~BeginsOK(log[i].text) =>
                /\ i = Len(log)
                /\ Done
                /\ result.kind = "text"
                /\ result.val = log[i].text
        /\ \A i, j \in RequestIndexes : i # j => log[i].params.type # log[j].params.type
        /\ \A i \in RequestIndexes :
            /\ log[i].verb = "POST"
            /\ log[i].url[4] = "/setup"
            /\ log[i].params.type \in StepSet

C7_Witness ==
    /\ Done
    /\ method = "setup"
    /\ Len(log) = 4
    /\ log[3].params.type = "model"
    /\ ~BeginsOK(log[4].text)
    /\ args.cost_calculation # None
    /\ args.init_db
    /\ result.val = log[4].text

ClaimedOrder ==
    << "epw", "weather_data", "idf", "model", "parameters", "lca_calculation",
       "cost_calculation", "database", "energy_calculation" >>

\* The place of each type in the claimed order.
Rank ==
    [t \in {ClaimedOrder[k] : k \in 1..Len(ClaimedOrder)} |->
        CHOOSE k \in 1..Len(ClaimedOrder) : ClaimedOrder[k] = t]

\* C8: the requests of a setup call follow the order epw, weather_data,
\* idf, model, parameters, lca_calculation, cost_calculation, database,
\* energy_calculation; each follows a response that started with 'OK'; and
\* the energy calculation type is validated after the database request.
C8_SetupOrder ==
    method = "setup" =>
        /\ \A i, j \in RequestIndexes :
            i < j => Rank[log[i].params.type] < Rank[log[j].params.type]
        /\ \A i \in RequestIndexes :
            /\ log[i + 1].ev = "response"
            /\ i > 1 => (log[i - 1].ev = "response" /\ BeginsOK(log[i - 1].text))
        /\ (Done /\ args.init_db /\ result.kind = "text" /\ result.val = EnergyTypeMessage)
                => OfType("database") # {}

C8_Witness ==
    /\ Done
    /\ method = "setup"
    /\ {"model", "parameters", "database", "energy_calculation"} \subseteq RequestTypes
    /\ result.kind = "newline+pformat"

====
